---- MODULE Spec2Model ----
(***************************************************************************)
(* Job lifecycle of the MP4-to-MP3 converter server (server.js, listed in  *)
(* QUICK_FIX.md): multer intake, the /api/convert handler around the       *)
(* external ffmpeg engine, and the /api/download/:filename handler with    *)
(* its three cleanup hooks (finish, error, close).                         *)
(*                                                                         *)
(* The two directories are modelled as sets of file names.  A Convert      *)
(* request c stores its upload under the name c (uuid + ext) and its       *)
(* output under the token c (uuid + ".mp3").  Every action is one turn of  *)
(* the Node.js event loop: a handler together with the promise             *)
(* continuation that runs right after it.                                  *)
(***************************************************************************)
EXTENDS Integers, FiniteSets, Sequences, TLC

\* requests (Convert or Download) the server receives in one run
MaxReq == 3

Conv == 1..MaxReq
Dl == 1..MaxReq
Tokens == Conv

\* multer limits.fileSize, in MB (500 * 1024 * 1024 bytes)
FileSizeLimitMB == 500

allowedTypes == {"video/mp4", "audio/mp4", "video/avi", "video/mov", "video/wmv"}
allowedExtensions == {".mp4", ".avi", ".mov", ".wmv", ".m4v"}

\* inputs a client may send
MimeTypes == {"video/mp4", "image/png"}
Extensions == {".mp4", ".MP4", ".png"}
SizesMB == {2, 500, 501}

toLowerCase(e) ==
    CASE e = ".MP4" -> ".mp4"
      [] e = ".AVI" -> ".avi"
      [] e = ".M4V" -> ".m4v"
      [] e = ".Mov" -> ".mov"
      [] OTHER -> e

\* a filter that wants the type and the extension to match
fileFilterBoth(mimetype, ext) ==
    mimetype \in allowedTypes /\ toLowerCase(ext) \in allowedExtensions

fileFilter(mimetype, ext) ==
    LET mimeTypeValid == mimetype \in allowedTypes
        extensionValid == toLowerCase(ext) \in allowedExtensions
    IN  mimeTypeValid \/ extensionValid

overLimit(sizeMB) == sizeMB > FileSizeLimitMB

inputPath(c) == c

\* .toFormat('mp3').audioCodec('libmp3lame').audioBitrate(192)
\* .audioFrequency(44100).audioChannels(2)
Profile ==
    [format |-> "mp3", codec |-> "libmp3lame", bitrate |-> 192,
     frequency |-> 44100, channels |-> 2]

NoProfile == [format |-> "none"]

\* kbps a request may ask for in its body, query or headers; 0: nothing asked
RequestedBitrates == {0, 128, 320}

\* output options that follow what the request asks for
engineProfileNegotiable(requested) ==
    IF requested = 0 THEN Profile ELSE [Profile EXCEPT !.bitrate = requested]

\* the options of the ffmpeg command: no value of the request is read
engineProfile(requested) == Profile

\* an output named after something that is not unique to the request
outputFilenameShared(c) == 1

outputFilename(c) == c

VARIABLES
    uploads,      \* names of the files in the uploads directory
    converted,    \* names of the files in the converted directory
    cpc,          \* position of each Convert request
    cin,          \* what the Convert request carried
    cresp,        \* response sent for the Convert request
    engine,       \* the ffmpeg run of each Convert request
    cclosed,      \* the client of the pending Convert request has gone away
    eprofile,     \* output options the engine of each Convert was started with
    dpc,          \* position of each Download request
    dtok,         \* :filename of the Download request
    dev,          \* events already emitted on the Download's req/res
    dlate,        \* the Download arrived after its token's artifact was deleted
    deletions,    \* effective unlinks of each artifact by the cleanup hooks
    unlinkFailed, \* <<directory, name>> of the files whose removal failed
    uncaught,     \* handlers an exception escaped from
    call,         \* a pure function of the server applied to one input
    result        \* what it returned

vars == <<uploads, converted, cpc, cin, cresp, engine, cclosed, eprofile, dpc, dtok, dev, dlate,
          deletions, unlinkFailed, uncaught, call, result>>

convVars == <<cpc, cin, cresp, engine>>
dlVars == <<dpc, dtok, dev, dlate>>
relVars == <<deletions, unlinkFailed>>
pureVars == <<call, result>>

NoEvents == [finish |-> FALSE, error |-> FALSE, close |-> FALSE]

NoCall == [fn |-> "none"]
NoResult == [done |-> FALSE]

Init ==
    /\ call = NoCall
    /\ result = NoResult
    /\ uploads = {}
    /\ converted = {}
    /\ cpc = [c \in Conv |-> "idle"]
    /\ cin = [c \in Conv |-> "none"]
    /\ cresp = [c \in Conv |-> "none"]
    /\ engine = [c \in Conv |-> "idle"]
    /\ cclosed = [c \in Conv |-> FALSE]
    /\ eprofile = [c \in Conv |-> NoProfile]
    /\ dpc = [d \in Dl |-> "idle"]
    /\ dtok = [d \in Dl |-> 0]
    /\ dev = [d \in Dl |-> NoEvents]
    /\ dlate = [d \in Dl |-> FALSE]
    /\ deletions = [t \in Tokens |-> 0]
    /\ unlinkFailed = {}
    /\ uncaught = {}

existsSync(dir, f) == f \in dir

----------------------------------------------------------------------------
(* Intake: upload.single('video') and the error-handling middleware *)

Received ==
    Cardinality({c \in Conv : cpc[c] # "idle"}) + Cardinality({d \in Dl : dpc[d] # "idle"})

\* requests are numbered in the order they arrive
NextConv(c) ==
    /\ Received < MaxReq
    /\ cpc[c] = "idle"
    /\ \A b \in Conv : b < c => cpc[b] # "idle"

\* no file part in the `video` field: req.file is undefined
ConvertNoFile(c) ==
    /\ NextConv(c)
    /\ cpc' = [cpc EXCEPT ![c] = "done"]
    /\ cin' = [cin EXCEPT ![c] = "nofile"]
    /\ cresp' = [cresp EXCEPT ![c] = "NoFile400"]
    /\ UNCHANGED <<pureVars, eprofile, cclosed, uploads, converted, engine, dlVars, relVars, uncaught>>

\* the file part is in a field other than `video`: upload.single('video')
\* fails with MulterError LIMIT_UNEXPECTED_FILE before anything is stored,
\* and the middleware, which knows only LIMIT_FILE_SIZE, answers its generic 500
UploadUnexpectedField(c) ==
    /\ NextConv(c)
    /\ cpc' = [cpc EXCEPT ![c] = "done"]
    /\ cin' = [cin EXCEPT ![c] = "wrongfield"]
    /\ cresp' = [cresp EXCEPT ![c] = "Internal500"]
    /\ UNCHANGED <<pureVars, eprofile, cclosed, uploads, converted, engine, dlVars, relVars, uncaught>>

\* fileFilter calls back with an Error: no storage, generic 500 from the middleware
UploadRejected(c) ==
    /\ NextConv(c)
    /\ \E m \in MimeTypes, e \in Extensions : ~fileFilter(m, e)
    /\ cpc' = [cpc EXCEPT ![c] = "done"]
    /\ cin' = [cin EXCEPT ![c] = "badkind"]
    /\ cresp' = [cresp EXCEPT ![c] = "Internal500"]
    /\ UNCHANGED <<pureVars, eprofile, cclosed, uploads, converted, engine, dlVars, relVars, uncaught>>

\* directory contents once diskStorage has opened its write stream
StorageOpen(c) == uploads \cup {inputPath(c)}

\* fileFilter accepts: diskStorage starts writing uploads/<uuid><ext> while the
\* body streams in; the size of the upload is known only as the bytes arrive
UploadAccepted(c) ==
    /\ NextConv(c)
    /\ \E m \in MimeTypes, e \in Extensions, s \in SizesMB :
         /\ fileFilter(m, e)
         /\ cin' = [cin EXCEPT ![c] = IF overLimit(s) THEN "toolarge" ELSE "ok"]
    /\ cpc' = [cpc EXCEPT ![c] = "storing"]
    /\ uploads' = StorageOpen(c)
    /\ UNCHANGED <<pureVars, eprofile, cclosed, converted, cresp, engine, dlVars, relVars, uncaught>>

\* the stream passes limits.fileSize: multer removes what it stored and the
\* middleware answers LIMIT_FILE_SIZE with 400
UploadTooLarge(c) ==
    /\ cpc[c] = "storing"
    /\ cin[c] = "toolarge"
    /\ \E ok \in BOOLEAN :
         /\ uploads' = IF ok THEN uploads \ {inputPath(c)} ELSE uploads
         /\ unlinkFailed' = IF ok THEN unlinkFailed
                            ELSE unlinkFailed \cup {<<"uploads", inputPath(c)>>}
    /\ cpc' = [cpc EXCEPT ![c] = "done"]
    /\ cresp' = [cresp EXCEPT ![c] = "TooLarge400"]
    /\ UNCHANGED <<pureVars, eprofile, cclosed, converted, cin, engine, dlVars, deletions, uncaught>>

----------------------------------------------------------------------------
(* app.post('/api/convert') *)

\* a handler that runs for whatever multer stored, also past the size limit
ConvertStartUnvalidated(c) ==
    /\ cpc[c] = "storing"
    /\ cpc' = [cpc EXCEPT ![c] = "converting"]
    /\ engine' = [engine EXCEPT ![c] = "running"]
    /\ \E q \in RequestedBitrates :
         eprofile' = [eprofile EXCEPT ![c] = engineProfile(q)]
    /\ UNCHANGED <<pureVars, cclosed, uploads, converted, cin, cresp, dlVars, relVars, uncaught>>

\* upload complete: the handler starts ffmpeg(inputPath)...save(outputPath)
ConvertStart(c) ==
    /\ cpc[c] = "storing"
    /\ cin[c] = "ok"
    /\ cpc' = [cpc EXCEPT ![c] = "converting"]
    /\ engine' = [engine EXCEPT ![c] = "running"]
    /\ \E q \in RequestedBitrates :
         eprofile' = [eprofile EXCEPT ![c] = engineProfile(q)]
    /\ UNCHANGED <<pureVars, cclosed, uploads, converted, cin, cresp, dlVars, relVars, uncaught>>

\* the engine creates its output file (once per run)
EngineWrite(c) ==
    /\ cpc[c] = "converting"
    /\ cpc' = [cpc EXCEPT ![c] = "writing"]
    /\ converted' = converted \cup {outputFilename(c)}
    /\ UNCHANGED <<pureVars, eprofile, cclosed, uploads, cin, cresp, engine, dlVars, relVars, uncaught>>

\* a catch block that answers without touching the input file
CatchBlockKeepsInput(c, ok, thrown) ==
    /\ uploads' = uploads
    /\ unlinkFailed' = unlinkFailed
    /\ cpc' = [cpc EXCEPT ![c] = "done"]
    /\ cresp' = [cresp EXCEPT ![c] = "ConversionFailed500"]
    /\ uncaught' = uncaught

\* a catch block that clears the whole uploads directory
CatchBlockWipes(c, ok, thrown) ==
    /\ uploads' = {}
    /\ unlinkFailed' = unlinkFailed
    /\ cpc' = [cpc EXCEPT ![c] = "done"]
    /\ cresp' = [cresp EXCEPT ![c] = "ConversionFailed500"]
    /\ uncaught' = uncaught

\* a catch block that hands the stored upload to the handler again
CatchBlockRetries(c, ok, thrown) ==
    /\ uploads' = uploads
    /\ unlinkFailed' = unlinkFailed
    /\ cpc' = [cpc EXCEPT ![c] = "storing"]
    /\ cresp' = cresp
    /\ uncaught' = uncaught

\* the catch block: unlink the input if it is there, then answer 500; an
\* unlinkSync that throws here escapes the async handler.  `thrown` says that
\* the error caught is the one of the unlinkSync after the await.
CatchBlock(c, ok, thrown) ==
    IF existsSync(uploads, inputPath(c)) /\ ~ok
    THEN /\ uploads' = uploads
         /\ unlinkFailed' = unlinkFailed \cup {<<"uploads", inputPath(c)>>}
         /\ cpc' = [cpc EXCEPT ![c] = "hung"]
         /\ cresp' = cresp
         /\ uncaught' = uncaught \cup {"convert"}
    ELSE /\ uploads' = uploads \ {inputPath(c)}
         /\ unlinkFailed' = IF thrown THEN unlinkFailed \cup {<<"uploads", inputPath(c)>>}
                            ELSE unlinkFailed
         /\ cpc' = [cpc EXCEPT ![c] = "done"]
         /\ cresp' = [cresp EXCEPT ![c] = "ConversionFailed500"]
         /\ uncaught' = uncaught

\* the code after the await: unlink the input, answer with the token
AfterAwait(c, ok1, ok2) ==
    IF ok1
    THEN /\ uploads' = uploads \ {inputPath(c)}
         /\ unlinkFailed' = unlinkFailed
         /\ cpc' = [cpc EXCEPT ![c] = "done"]
         /\ cresp' = [cresp EXCEPT ![c] = "Success200"]
         /\ uncaught' = uncaught
    ELSE CatchBlock(c, ok2, TRUE)

\* 'end': resolve(), whether or not the output file exists
EngineEnd(c) ==
    /\ cpc[c] \in {"converting", "writing"}
    /\ engine' = [engine EXCEPT ![c] = "ended"]
    /\ \E ok1, ok2 \in BOOLEAN : AfterAwait(c, ok1, ok2)
    /\ cclosed' = [cclosed EXCEPT ![c] = FALSE]
    /\ UNCHANGED <<pureVars, eprofile, converted, cin, dlVars, deletions>>

\* an 'error' handler that logs and never rejects
EngineErrorLogsOnly(c) ==
    /\ cpc[c] \in {"converting", "writing"}
    /\ engine' = [engine EXCEPT ![c] = "errored"]
    /\ UNCHANGED <<pureVars, eprofile, cclosed, uploads, converted, cpc, cin, cresp, dlVars,
                   relVars, uncaught>>

\* 'error': reject(err)
EngineError(c) ==
    /\ cpc[c] \in {"converting", "writing"}
    /\ engine' = [engine EXCEPT ![c] = "errored"]
    /\ \E ok \in BOOLEAN : CatchBlock(c, ok, FALSE)
    /\ cclosed' = [cclosed EXCEPT ![c] = FALSE]
    /\ UNCHANGED <<pureVars, eprofile, converted, cin, dlVars, deletions>>

\* the client goes away while the handler awaits the engine: the handler
\* listens to nothing on req or res, and the ffmpeg command is not killed
ConvertClientClose(c) ==
    /\ cpc[c] \in {"converting", "writing"}
    /\ ~cclosed[c]
    /\ cclosed' = [cclosed EXCEPT ![c] = TRUE]
    /\ UNCHANGED <<pureVars, eprofile, uploads, converted, convVars, dlVars, relVars, uncaught>>

----------------------------------------------------------------------------
(* app.get('/api/download/:filename') *)

NextDl(d) ==
    /\ Received < MaxReq
    /\ dpc[d] = "idle"
    /\ \A b \in Dl : b < d => dpc[b] # "idle"

\* the handler without its existence check
NotFoundUnchecked(filename) == FALSE

\* the 404 branch is taken
NotFound(filename) == ~existsSync(converted, filename)

DownloadStart(d) ==
    /\ NextDl(d)
    /\ \E filename \in Tokens :
         /\ dtok' = [dtok EXCEPT ![d] = filename]
         /\ dlate' = [dlate EXCEPT ![d] = deletions[filename] > 0]
         /\ dpc' = [dpc EXCEPT ![d] =
                      IF NotFound(filename) THEN "notfound" ELSE "streaming"]
    /\ UNCHANGED <<pureVars, eprofile, cclosed, uploads, converted, convVars, dev, relVars, uncaught>>

\* the same removal without its try/catch
CleanupRethrows(t, ok) ==
    LET there == existsSync(converted, t)
    IN  /\ converted' = IF there /\ ok THEN converted \ {t} ELSE converted
        /\ deletions' = [deletions EXCEPT ![t] = IF there /\ ok THEN @ + 1 ELSE @]
        /\ unlinkFailed' = IF there /\ ~ok THEN unlinkFailed \cup {<<"converted", t>>}
                           ELSE unlinkFailed
        /\ uncaught' = IF there /\ ~ok THEN uncaught \cup {"release"} ELSE uncaught

\* if (fs.existsSync(filePath)) { try { fs.unlinkSync(filePath) } catch { log } }
Cleanup(t, ok) ==
    LET there == existsSync(converted, t)
    IN  /\ converted' = IF there /\ ok THEN converted \ {t} ELSE converted
        /\ deletions' = [deletions EXCEPT ![t] = IF there /\ ok THEN @ + 1 ELSE @]
        /\ unlinkFailed' = IF there /\ ~ok THEN unlinkFailed \cup {<<"converted", t>>}
                           ELSE unlinkFailed
        /\ uncaught' = uncaught

NoCleanup == UNCHANGED <<converted, deletions, unlinkFailed, uncaught>>

\* res.finished: true once response.end() has been called, which is before
\* the 'finish' event (the response flushed to the operating system)
resFinished(d) == dpc[d] = "ended"

\* the piped read stream reaches the end of the file and calls res.end()
PipeEnd(d) ==
    /\ dpc[d] = "streaming"
    /\ ~dev[d].close /\ ~dev[d].error
    /\ dpc' = [dpc EXCEPT ![d] = "ended"]
    /\ UNCHANGED <<pureVars, eprofile, cclosed, uploads, converted, convVars, dtok, dev, dlate, relVars, uncaught>>

\* fs.createReadStream opens the file asynchronously, after the handler has
\* returned; until the first chunk is read nothing tells an opened stream
\* from one still waiting to be opened.  Racing(d) are the other Downloads
\* of d's token whose open may still be pending.
Racing(d) == {x \in Dl \ {d} : dpc[x] = "streaming" /\ dtok[x] = dtok[d]}

\* a hook of d has run.  Where it removed the file, the opens still pending
\* on it (late) fail with ENOENT: the read stream emits 'error', which has no
\* listener, and the exception is uncaught.
AfterHook(d) ==
    \E late \in SUBSET Racing(d) :
        /\ late # {} => (existsSync(converted, dtok[d]) /\ ~existsSync(converted', dtok[d]))
        /\ dpc' = [x \in Dl |-> IF x \in late THEN "openfailed" ELSE dpc[x]]

\* a finish hook that only logs
OnFinishLogsOnly(d, ok) == NoCleanup

OnFinish(d, ok) == Cleanup(dtok[d], ok)

OnError(d, ok) == Cleanup(dtok[d], ok)

OnClose(d, ok) == IF ~resFinished(d) THEN Cleanup(dtok[d], ok) ELSE NoCleanup

\* res 'finish': the response has been handed to the operating system
\* (whether it is still emitted once the connection is gone is left open)
Finish(d) ==
    /\ dpc[d] = "ended"
    /\ ~dev[d].finish
    /\ dev' = [dev EXCEPT ![d].finish = TRUE]
    /\ \E ok \in BOOLEAN : OnFinish(d, ok)
    /\ AfterHook(d)
    /\ UNCHANGED <<pureVars, eprofile, cclosed, uploads, convVars, dtok, dlate>>

\* res 'error': writing the response failed
WriteError(d) ==
    /\ dpc[d] \in {"streaming", "ended"}
    /\ ~dev[d].finish /\ ~dev[d].error
    /\ dev' = [dev EXCEPT ![d].error = TRUE]
    /\ \E ok \in BOOLEAN : OnError(d, ok)
    /\ AfterHook(d)
    /\ UNCHANGED <<pureVars, eprofile, cclosed, uploads, convVars, dtok, dlate>>

\* req 'close': the client's connection is gone
Close(d) ==
    /\ dpc[d] \in {"streaming", "ended"}
    /\ ~dev[d].close
    /\ dev' = [dev EXCEPT ![d].close = TRUE]
    /\ \E ok \in BOOLEAN : OnClose(d, ok)
    /\ AfterHook(d)
    /\ UNCHANGED <<pureVars, eprofile, cclosed, uploads, convVars, dtok, dlate>>

----------------------------------------------------------------------------

Next ==
    \/ \E c \in Conv : ConvertNoFile(c)
    \/ \E c \in Conv : UploadUnexpectedField(c)
    \/ \E c \in Conv : UploadRejected(c)
    \/ \E c \in Conv : UploadAccepted(c)
    \/ \E c \in Conv : UploadTooLarge(c)
    \/ \E c \in Conv : ConvertStart(c)
    \/ \E c \in Conv : EngineWrite(c)
    \/ \E c \in Conv : EngineEnd(c)
    \/ \E c \in Conv : EngineError(c)
    \/ \E c \in Conv : ConvertClientClose(c)
    \/ \E d \in Dl : DownloadStart(d)
    \/ \E d \in Dl : PipeEnd(d)
    \/ \E d \in Dl : Finish(d)
    \/ \E d \in Dl : WriteError(d)
    \/ \E d \in Dl : Close(d)

Spec == Init /\ [][Next]_vars

TypeOK ==
    /\ uploads \subseteq Conv
    /\ converted \subseteq Tokens
    /\ cpc \in [Conv -> {"idle", "storing", "converting", "writing", "done", "hung"}]
    /\ cin \in [Conv -> {"none", "nofile", "wrongfield", "badkind", "toolarge", "ok"}]
    /\ cresp \in [Conv -> {"none", "NoFile400", "Internal500", "TooLarge400",
                           "Success200", "ConversionFailed500"}]
    /\ dpc \in [Dl -> {"idle", "notfound", "streaming", "ended", "openfailed"}]
    /\ dtok \in [Dl -> Tokens \cup {0}]
    /\ engine \in [Conv -> {"idle", "running", "ended", "errored"}]
    /\ cclosed \in [Conv -> BOOLEAN]
    /\ eprofile \in [Conv -> {NoProfile, Profile}]
    /\ uncaught \subseteq {"convert", "release"}

----------------------------------------------------------------------------
(* Derived notions used by the properties *)

Streamed(d) == dpc[d] \in {"streaming", "ended"}

NoEventYet(d) == ~dev[d].finish /\ ~dev[d].error /\ ~dev[d].close

EventsHandled(d) ==
    (IF dev[d].finish THEN 1 ELSE 0) + (IF dev[d].error THEN 1 ELSE 0)
        + (IF dev[d].close THEN 1 ELSE 0)

Ready(t) == cresp[t] = "Success200"

DownloadsOf(t) == {d \in Dl : dpc[d] # "idle" /\ dtok[d] = t}

----------------------------------------------------------------------------
(* Properties *)

\* C1: a Download that arrives after the artifact of its token was deleted by
\* a cleanup hook is answered 404 and never streams.
OneShotAfterRelease == \A d \in Dl : dlate[d] => dpc[d] = "notfound"

\* C1 witness: a late Download of a released token has been answered.
OneShotAfterReleaseWitness ==
    \E d \in Dl : dlate[d] /\ dpc[d] = "notfound" /\ Ready(dtok[d])

\* C2 (as claimed): a Download that arrives while another Download of the same
\* Ready token is streaming, before any of its terminal events, is answered 404.
SecondDownloadNotFound ==
    [][\A d2 \in Dl :
         (/\ dpc[d2] = "idle"
          /\ dpc'[d2] # "idle"
          /\ \E d1 \in Dl : /\ dpc[d1] = "streaming"
                            /\ NoEventYet(d1)
                            /\ dtok[d1] = dtok'[d2]
                            /\ Ready(dtok[d1])
                            /\ existsSync(converted, dtok[d1]))
         => dpc'[d2] = "notfound"]_vars

\* C3 (as claimed): no file of a request whose input is of an unsupported kind
\* or over the size ceiling is ever in the uploads or the converted directory.
RejectedNeverStored ==
    \A c \in Conv :
        cin[c] \in {"badkind", "toolarge"} =>
            /\ ~existsSync(uploads, inputPath(c))
            /\ ~existsSync(converted, outputFilename(c))

\* C4 (as claimed): once a terminal event of a Download of a Ready artifact
\* has been handled and no removal of the artifact has failed, the artifact
\* is gone.
RemovedAfterFirstTerminalEvent ==
    \A d \in Dl :
        (/\ Streamed(d)
         /\ Ready(dtok[d])
         /\ EventsHandled(d) >= 1
         /\ <<"converted", dtok[d]>> \notin unlinkFailed)
        => ~existsSync(converted, dtok[d])

IntakeGoneAtResponse ==
    \A c \in Conv :
        cresp[c] \in {"Success200", "ConversionFailed500"}
            => ~existsSync(uploads, inputPath(c))

\* C6 witness: a conversion failure was answered after the unlinkSync that
\* follows the await had thrown.
IntakeGoneAtResponseWitness ==
    \E c \in Conv :
        /\ cresp[c] = "ConversionFailed500"
        /\ <<"uploads", inputPath(c)>> \in unlinkFailed

\* C7 (as claimed): from the success response until the first Download of its
\* token the output artifact of the job exists.
ArtifactAwaitsFirstDownload ==
    \A c \in Conv :
        (Ready(c) /\ DownloadsOf(outputFilename(c)) = {})
            => existsSync(converted, outputFilename(c))

\* C8 (as claimed): the success response is sent only if the output file
\* exists at that moment.
SuccessOnlyWithOutput ==
    [][\A c \in Conv :
         (cresp[c] = "none" /\ cresp'[c] = "Success200")
            => existsSync(converted', outputFilename(c))]_vars

\* C9 (as claimed): after the ConversionFailed response to an engine error
\* the converted directory holds no file of the job.
NoOutputAfterFailure ==
    \A c \in Conv :
        (engine[c] = "errored" /\ cresp[c] = "ConversionFailed500")
            => ~existsSync(converted, outputFilename(c))

Quiescent ==
    /\ \A c \in Conv : cpc[c] \in {"idle", "done"}
    /\ \A d \in Dl : Streamed(d) => EventsHandled(d) >= 1

AwaitingDownload(t) == Ready(t) /\ DownloadsOf(t) = {}

\* C10 (as claimed): once no request is in progress, and no removal has
\* failed, the uploads directory is empty and the converted directory holds
\* nothing but artifacts that still await their first Download.
NothingLeftWhenIdle ==
    (Quiescent /\ unlinkFailed = {})
        => (uploads = {} /\ \A t \in converted : AwaitingDownload(t))

HasPaths(c) == cpc[c] \notin {"idle"} /\ cin[c] \in {"ok", "toolarge"}

DistinctPaths ==
    \A c1, c2 \in Conv :
        (c1 # c2 /\ HasPaths(c1) /\ HasPaths(c2))
            => (inputPath(c1) # inputPath(c2) /\ outputFilename(c1) # outputFilename(c2))

Changed(old, new) == (old \ new) \cup (new \ old)

----------------------------------------------------------------------------
(* The pure functions of the handlers, each applied to one input *)

\* declared media types and extensions of the candidates
CandidateTypes == allowedTypes \cup {"image/png", "video/x-m4v", "application/octet-stream"}
CandidateExtensions ==
    {".mp4", ".MP4", ".avi", ".AVI", ".mov", ".Mov", ".wmv", ".m4v", ".M4V", ".png", ""}

FilterCalls ==
    [fn : {"fileFilter"}, mimetype : CandidateTypes, ext : CandidateExtensions]

\* longest ?original= value tried, over the characters below
MaxNameLen == 4
NameChars == {"a", ".", "/"}

RECURSIVE NamesOfLen(_)
NamesOfLen(n) ==
    IF n = 0 THEN {<<>>}
    ELSE {Append(w, ch) : w \in NamesOfLen(n - 1), ch \in NameChars}

clipMp4 == <<"c", "l", "i", "p", ".", "m", "p", "4">>
clipMp3 == <<"c", "l", "i", "p", ".", "m", "p", "3">>
convertedMp3 == <<"c", "o", "n", "v", "e", "r", "t", "e", "d", ".", "m", "p", "3">>
dotMp3 == <<".", "m", "p", "3">>

OriginalNames == UNION {NamesOfLen(n) : n \in 0..MaxNameLen} \cup {clipMp4}

\* given = FALSE: the request has no ?original= parameter
HeaderCalls ==
    [fn : {"headers"}, given : {TRUE}, original : OriginalNames]
        \cup {[fn |-> "headers", given |-> FALSE, original |-> <<>>]}

\* what may be at the path of a directory when the server starts
EntryKinds == {"absent", "dir", "file"}

\* mkdirOk: fs.mkdirSync can create a directory here (FALSE: it throws, as on
\* a read-only file system)
StartupCalls ==
    [fn : {"startup"}, uploads : EntryKinds, converted : EntryKinds, mkdirOk : BOOLEAN]

\* if (!fs.existsSync(dir)) fs.mkdirSync(dir, { recursive: true })
ensureDir(kind, mkdirOk) ==
    IF kind # "absent"
    THEN [kind |-> kind, mkdirs |-> 0, thrown |-> FALSE]
    ELSE IF mkdirOk
         THEN [kind |-> "dir", mkdirs |-> 1, thrown |-> FALSE]
         ELSE [kind |-> "absent", mkdirs |-> 1, thrown |-> TRUE]

\* the module's top level, from the two directories to app.listen: an
\* exception thrown on the way ends the process before it listens
startup(uploadsKind, convertedKind, mkdirOk) ==
    LET u == ensureDir(uploadsKind, mkdirOk)
        c == IF u.thrown THEN [kind |-> convertedKind, mkdirs |-> 0, thrown |-> TRUE]
             ELSE ensureDir(convertedKind, mkdirOk)
    IN  [uploads |-> u.kind, converted |-> c.kind,
         mkdirs |-> u.mkdirs + c.mkdirs,
         listening |-> ~u.thrown /\ ~c.thrown]

\* paths are sequences of segments; __dirname is <<"app">>
uploadsDir == <<"app", "uploads">>
convertedDir == <<"app", "converted">>

\* most segments in a :filename value; Express decodes %2F in the parameter,
\* so the value may hold "/" and ".."
MaxSegs == 3
Segments == {"..", "uploads", "f.mp3"}

RECURSIVE FilenamesOfLen(_)
FilenamesOfLen(n) ==
    IF n = 0 THEN {<<>>}
    ELSE {Append(w, g) : w \in FilenamesOfLen(n - 1), g \in Segments}

Filenames == UNION {FilenamesOfLen(n) : n \in 1..MaxSegs}

ResolveCalls == [fn : {"resolve"}, filename : Filenames]

\* path.normalize: ".." removes the segment before it
RECURSIVE normalize(_, _)
normalize(done, rest) ==
    IF rest = <<>> THEN done
    ELSE IF Head(rest) = ".."
         THEN normalize(IF done = <<>> THEN done ELSE SubSeq(done, 1, Len(done) - 1),
                        Tail(rest))
         ELSE normalize(Append(done, Head(rest)), Tail(rest))

\* path.join(dir, filename)
pathJoin(dir, filename) == normalize(<<>>, dir \o filename)

\* const filePath = path.join(convertedDir, filename)
filePath(filename) == pathJoin(convertedDir, filename)

PureCalls == FilterCalls \cup HeaderCalls \cup StartupCalls \cup ResolveCalls

\* a replace that cuts at the first dot: s.replace(/\..*$/, '')
stripFromFirstDot(s) ==
    LET M == {i \in 1..Len(s) : s[i] = "."}
    IN  IF M = {} THEN s
        ELSE SubSeq(s, 1, (CHOOSE i \in M : \A k \in M : i <= k) - 1)

\* s.replace(/\.[^/.]+$/, ''): drop a final dot followed by one or more
\* characters that are neither "/" nor "."
stripExtension(s) ==
    LET M == {i \in 1..Len(s) :
                /\ s[i] = "."
                /\ i < Len(s)
                /\ \A j \in (i + 1)..Len(s) : s[j] \notin {"/", "."}}
    IN  IF M = {} THEN s
        ELSE SubSeq(s, 1, (CHOOSE i \in M : \A k \in M : i <= k) - 1)

\* req.query.original || 'converted.mp3', extension replaced by .mp3
dispositionName(given, original) ==
    LET originalName == IF given /\ original # <<>> THEN original ELSE convertedMp3
    IN  stripExtension(originalName) \o dotMp3

PureInit ==
    /\ uploads = {}
    /\ converted = {}
    /\ cpc = [c \in Conv |-> "idle"]
    /\ cin = [c \in Conv |-> "none"]
    /\ cresp = [c \in Conv |-> "none"]
    /\ engine = [c \in Conv |-> "idle"]
    /\ cclosed = [c \in Conv |-> FALSE]
    /\ eprofile = [c \in Conv |-> NoProfile]
    /\ dpc = [d \in Dl |-> "idle"]
    /\ dtok = [d \in Dl |-> 0]
    /\ dev = [d \in Dl |-> NoEvents]
    /\ dlate = [d \in Dl |-> FALSE]
    /\ deletions = [t \in Tokens |-> 0]
    /\ unlinkFailed = {}
    /\ uncaught = {}
    /\ call \in PureCalls
    /\ result = NoResult

serverVars == <<uploads, converted, convVars, cclosed, eprofile, dlVars, relVars, uncaught>>

\* multer calls fileFilter(req, file, cb): cb(null, true) or cb(new Error(...))
ApplyFileFilter ==
    /\ call.fn = "fileFilter"
    /\ ~result.done
    /\ result' = [done |-> TRUE, value |-> fileFilter(call.mimetype, call.ext)]
    /\ UNCHANGED <<call, serverVars>>

\* the headers a Download sets before it streams
ApplyHeaders ==
    /\ call.fn = "headers"
    /\ ~result.done
    /\ result' = [done |-> TRUE,
                  contentType |-> "audio/mpeg",
                  filename |-> dispositionName(call.given, call.original)]
    /\ UNCHANGED <<call, serverVars>>

\* the server starts
ApplyStartup ==
    /\ call.fn = "startup"
    /\ ~result.done
    /\ result' = [done |-> TRUE,
                  value |-> startup(call.uploads, call.converted, call.mkdirOk)]
    /\ UNCHANGED <<call, serverVars>>

\* the file a Download tests, streams and unlinks
ApplyResolve ==
    /\ call.fn = "resolve"
    /\ ~result.done
    /\ result' = [done |-> TRUE, value |-> filePath(call.filename)]
    /\ UNCHANGED <<call, serverVars>>

PureNext ==
    \/ ApplyFileFilter
    \/ ApplyHeaders
    \/ ApplyStartup
    \/ ApplyResolve

PureSpec == PureInit /\ [][PureNext]_vars

----------------------------------------------------------------------------
(* Properties of the pure functions (checked under PureSpec) *)

\* the formats the documentation and the rejection message name
SupportedTypes == {"video/mp4", "audio/mp4", "video/avi", "video/mov", "video/wmv"}
SupportedExtensions == {".mp4", ".avi", ".mov", ".wmv"}

TypeMatches(c) == c.mimetype \in SupportedTypes

ExtensionMatches(c, exts) == \E x \in exts : toLowerCase(c.ext) = x

EndsWith(s, suffix) ==
    /\ Len(s) >= Len(suffix)
    /\ SubSeq(s, Len(s) - Len(suffix) + 1, Len(s)) = suffix

Dots(s) == {i \in 1..Len(s) : s[i] = "."}

LastDot(s) == CHOOSE i \in Dots(s) : \A k \in Dots(s) : k <= i

\* the name without its last extension: the part from the last dot on, when
\* something follows that dot and no "/" does
WithoutLastExtension(s) ==
    IF Dots(s) = {} THEN s
    ELSE IF LastDot(s) = Len(s) \/ \E j \in LastDot(s)..Len(s) : s[j] = "/" THEN s
    ELSE SubSeq(s, 1, LastDot(s) - 1)

\* C16: the headers of a Download are content type audio/mpeg and a file name
\* that ends in .mp3: the ?original= value without its last extension plus
\* ".mp3" (clip.mp4 gives clip.mp3), and converted.mp3 without ?original=.
DispositionEndsInMp3 ==
    (call.fn = "headers" /\ result.done)
        => /\ result.contentType = "audio/mpeg"
           /\ EndsWith(result.filename, dotMp3)
           /\ (call.given /\ call.original # <<>>)
                => result.filename = WithoutLastExtension(call.original) \o dotMp3
           /\ (call.given /\ call.original = clipMp4) => result.filename = clipMp3
           /\ ~call.given => result.filename = convertedMp3

\* C16 witness: the headers for ?original=clip.mp4 have been computed.
DispositionEndsInMp3Witness ==
    /\ call.fn = "headers"
    /\ call.given
    /\ call.original = clipMp4
    /\ result.done
    /\ result.filename = clipMp3

----------------------------------------------------------------------------
(* Properties of the handlers, continued (checked under Spec) *)

Rejected(c) == cpc[c] = "done" /\ cin[c] \in {"badkind", "toolarge"}

\* C13 (as claimed): a Convert request rejected by validation is answered with
\* the reason code of its cause: UnsupportedKind for the kind, TooLarge for
\* the size, and no other code.
ValidationReasonCodes ==
    \A c \in Conv :
        Rejected(c) =>
            cresp[c] = (IF cin[c] = "badkind" THEN "UnsupportedKind400" ELSE "TooLarge400")

\* C14: the engine has been invoked only for requests whose input passed the
\* kind and the size validation.
ValidationBeforeEngine ==
    \A c \in Conv : engine[c] # "idle" => cin[c] = "ok"

\* C14 witness: one request has been rejected for its size while the engine
\* runs for another, accepted one.
ValidationBeforeEngineWitness ==
    \E c1, c2 \in Conv :
        /\ Rejected(c1) /\ cin[c1] = "toolarge" /\ engine[c1] = "idle"
        /\ engine[c2] = "running"

Answered(c) == cresp[c] \in {"Success200", "ConversionFailed500"}

\* C15: an engine run that has ended or failed is never started again,
\* whatever follows (error, missing output, failed cleanup), and every
\* answer to an accepted upload comes after the one run of its job.
EngineRunsOnce ==
    [][\A c \in Conv :
         /\ engine[c] \in {"ended", "errored"} => engine'[c] = engine[c]
         /\ engine[c] = "running" => engine'[c] # "idle"
         /\ (Answered(c) \/ cpc[c] = "hung")' => engine'[c] \in {"ended", "errored"}]_vars

\* C15 witness: the engine failed and the cleanup of the input failed too.
EngineRunsOnceWitness ==
    \E c \in Conv :
        /\ engine[c] = "errored"
        /\ cpc[c] = "hung"
        /\ <<"uploads", inputPath(c)>> \in unlinkFailed

\* C17 (as claimed): a Download of a Ready token that another Download has
\* already streamed is answered 404 and changes no file.
ConsumedTokenNotFound ==
    [][\A d2 \in Dl :
         (/\ dpc[d2] = "idle"
          /\ dpc'[d2] # "idle"
          /\ Ready(dtok'[d2])
          /\ \E d1 \in Dl : Streamed(d1) /\ dtok[d1] = dtok'[d2])
         => (dpc'[d2] = "notfound" /\ UNCHANGED <<uploads, converted>>)]_vars

\* C18: a removal of the artifact that fails in a cleanup hook lets no
\* exception escape and changes no response, of a Download or of a Convert.
BestEffortDeletion ==
    [][(\E t \in Tokens : <<"converted", t>> \in unlinkFailed' \ unlinkFailed)
         => (uncaught' = uncaught /\ dpc' = dpc /\ cresp' = cresp)]_vars

\* C18 witness: the removal failed in the finish hook of a Download.
BestEffortDeletionWitness ==
    \E d \in Dl :
        /\ dev[d].finish
        /\ <<"converted", dtok[d]>> \in unlinkFailed
        /\ existsSync(converted, dtok[d])

\* C19 (as claimed): once the disconnect of the consumer of a Download of a
\* Ready artifact has been handled, and no removal has failed, the artifact
\* is released and the job's conversion stands as completed.
DisconnectReleases ==
    \A d \in Dl :
        (/\ Streamed(d)
         /\ dev[d].close
         /\ Ready(dtok[d])
         /\ <<"converted", dtok[d]>> \notin unlinkFailed)
        => (/\ ~existsSync(converted, dtok[d])
            /\ engine[dtok[d]] = "ended")

Converting(c) == cpc[c] \in {"converting", "writing"}

Suspended(c) == Converting(c)

Streaming(d) == dpc[d] = "streaming"

\* every other job's own next step can be taken now
OthersCanStep(c) ==
    \A b \in Conv \ {c} :
        /\ (cpc[b] = "storing" /\ cin[b] = "ok") => ENABLED ConvertStart(b)
        /\ Converting(b) => ENABLED EngineEnd(b) /\ ENABLED EngineError(b)

NewRequestsCanStart ==
    Received < MaxReq =>
        /\ ENABLED (\E b \in Conv : UploadAccepted(b))
        /\ ENABLED (\E d \in Dl : DownloadStart(d))

JobsDoNotBlock ==
    /\ \A c \in Conv : Suspended(c) => (OthersCanStep(c) /\ NewRequestsCanStart)
    /\ \A d \in Dl : Streaming(d) => (OthersCanStep(0) /\ NewRequestsCanStart)

\* the step in which the engine of c reports an error
EngineFails(c) == engine[c] = "running" /\ engine'[c] = "errored"

FailureStaysLocal ==
    \A c \in Conv :
        EngineFails(c) =>
            /\ \A b \in Conv \ {c} :
                 /\ cpc'[b] = cpc[b] /\ cresp'[b] = cresp[b] /\ engine'[b] = engine[b]
                 /\ existsSync(uploads', inputPath(b)) <=> existsSync(uploads, inputPath(b))
                 /\ existsSync(converted', outputFilename(b))
                      <=> existsSync(converted, outputFilename(b))
            /\ dpc' = dpc

DownloadWhileConvertingNotFound ==
    \A d \in Dl :
        (dpc[d] # "idle" /\ Converting(dtok[d]))
            => (dpc[d] = "notfound" /\ deletions[dtok[d]] = 0)

----------------------------------------------------------------------------
(* Properties of the startup code (checked under PureSpec) *)

Started == call.fn = "startup" /\ result.done

\* C23 (as claimed): when the server listens both directories exist; a
\* directory that was already there is not created again; a mkdirSync that
\* fails is not retried and the server does not listen.
StorageRootReady ==
    Started =>
        /\ result.value.listening
             => (result.value.uploads = "dir" /\ result.value.converted = "dir")
        /\ (call.uploads = "dir" /\ call.converted = "dir") => result.value.mkdirs = 0
        /\ result.value.mkdirs
             <= Cardinality({d \in {"uploads", "converted"} : call[d] = "absent"})
        /\ (~call.mkdirOk /\ "absent" \in {call.uploads, call.converted})
             => ~result.value.listening

----------------------------------------------------------------------------
(* Properties of the handlers, continued (checked under Spec) *)

EngineStarted(c) == engine[c] # "idle"

\* C24: every engine run, whatever its request asked for, was started with
\* the one fixed profile (MP3, 192 kbps, 44.1 kHz, 2 channels), so any two
\* runs have the same profile.
FixedOutputProfile ==
    \A c1, c2 \in Conv :
        (EngineStarted(c1) /\ EngineStarted(c2))
            => (eprofile[c1] = eprofile[c2] /\ eprofile[c1] = Profile)

\* C24 witness: the engine has been started for two Convert requests.
FixedOutputProfileWitness ==
    \E c1, c2 \in Conv : c1 # c2 /\ EngineStarted(c1) /\ EngineStarted(c2)

\* the request carried no file part in the `video` field
NoVideoFile(c) == cin[c] \in {"nofile", "wrongfield"}

\* C25 (as claimed): a Convert request with no file in the `video` field has
\* been answered 400 'No file uploaded'; no engine was started for it and no
\* file of it is in either directory.
NoFileAnswered400 ==
    \A c \in Conv :
        (cpc[c] = "done" /\ NoVideoFile(c))
            => /\ cresp[c] = "NoFile400"
               /\ engine[c] = "idle"
               /\ ~existsSync(uploads, inputPath(c))
               /\ ~existsSync(converted, outputFilename(c))

EngineReported(c) == engine[c] \in {"ended", "errored"}

\* C26 (as claimed): once the engine of a Convert request has reported, the
\* request has been answered, with success or with the conversion failure,
\* also when a removal of the input failed.
AnsweredOnceReported ==
    \A c \in Conv : EngineReported(c) => Answered(c)

\* C27 (as claimed): after an engine run that completed, an output file that
\* is on disk belongs to a job whose client received its token.
OutputNeverOrphaned ==
    \A c \in Conv :
        (engine[c] = "ended" /\ existsSync(converted, outputFilename(c))) => Ready(c)

\* C28 (as claimed): every Download that has been received either got 404 or
\* streams (has streamed) the artifact, however the hooks of another
\* Download of the same token interleave with it; no stream error is left
\* unhandled.
RacingDownloadsAnswered ==
    \A d \in Dl :
        (dpc[d] # "idle" /\ Ready(dtok[d])) => (dpc[d] = "notfound" \/ Streamed(d))

\* C29 (as claimed): while a Download of a Ready artifact is in progress and
\* none of its terminal events has occurred, the artifact is on disk.
DeletedOnlyAfterOwnTerminalEvent ==
    \A d \in Dl :
        (dpc[d] = "streaming" /\ NoEventYet(d) /\ Ready(dtok[d]))
            => existsSync(converted, dtok[d])

----------------------------------------------------------------------------
(* Properties of the Download's file path (checked under PureSpec) *)

IsPrefix(p, q) == Len(p) <= Len(q) /\ SubSeq(q, 1, Len(p)) = p

\* C30 (as claimed): whatever the :filename parameter, the file a Download
\* streams and unlinks lies in the converted directory.
DownloadStaysInConverted ==
    (call.fn = "resolve" /\ result.done)
        => /\ IsPrefix(convertedDir, result.value)
           /\ result.value # convertedDir
           /\ ~IsPrefix(uploadsDir, result.value)

====
